---- MODULE Spec2Model ----
(***************************************************************************)
(* Model of the TUS upload session actor, src/src/durable/                 *)
(* TusUploadHandler.ts: one Durable Object with its SQLite tables          *)
(* (upload_info, uploaded_parts), its alarm, and the R2 bucket and D1      *)
(* database it drives.  Failures of the blob store and of the metadata     *)
(* store are inputs of the handlers.  Spec runs every handler as one       *)
(* atomic action, one call after the other.  SpecAwait adds the behaviours *)
(* in which another call is delivered to the object while uploadPart is    *)
(* suspended at its await of the R2 part upload.                           *)
(* SpecHttp runs the TUS routes of src/unnamed/part_003 against one        *)
(* object: a PATCH is two calls of the object, getUploadStatus and         *)
(* uploadPart, and other requests may be served between them.              *)
(* SpecLive is Spec with the clock running and due alarms delivered.       *)
(* SpecCrash adds the behaviours in which the process stops while          *)
(* createUpload or uploadPart waits at an await, and restarts.             *)
(***************************************************************************)
EXTENDS Integers, Sequences, FiniteSets, TLC

\* ------------------------------------------------------------------ bounds
\* largest declared total size of an upload (bytes, scaled)
MaxTotalSize == 2
\* largest chunk body sent in one PATCH (bytes, scaled)
MaxChunk == 2
\* largest number of part rows the model lets a session record
MaxParts == 2
\* number of sessions that may be created (crypto.randomUUID() values)
MaxUploads == 2
\* last instant of the clock
MaxTime == 2
\* largest number of uploadPart calls suspended at their await at one time
MaxSuspended == 1
\* largest number of PATCH requests between their two calls of the object
MaxChunkRequests == 2

\* session TTL, in clock ticks (7 days in the source)
UPLOAD_EXPIRATION_MS == 1
\* largest Upload-Length accepted (5 GiB in the source)
TUS_MAX_SIZE == MaxTotalSize

R2Keys == {"k1", "k2"}
\* the R2 key `${uploadId}/${meta.filename}` of the URL's upload id
UrlKey == CHOOSE k \in R2Keys : TRUE
TotalSizes == {MaxTotalSize}
\* the totalSize arguments of createUpload calls; sessions are created with a
\* size of TotalSizes, a call that finds a session may name any of these
RequestedSizes == 1..MaxTotalSize
ChunkLens == 0..MaxChunk
Offsets == 0..(MaxParts * MaxChunk)
UploadIds == 1..MaxUploads
Outcome == {"ok", "fail"}
\* what the stores do during one uploadPart call:
\*   part, complete: the R2 call succeeds or throws
\*   insert: the D1 INSERT writes the row / throws / reports done without a
\*           row that a later read finds
\*   verify: the D1 SELECT ... first() answers from the table / throws
StoreBehaviours ==
    {[part |-> "ok", complete |-> "ok", insert |-> "ok", verify |-> "read"],
     [part |-> "fail", complete |-> "ok", insert |-> "ok", verify |-> "read"],
     [part |-> "ok", complete |-> "fail", insert |-> "ok", verify |-> "read"],
     [part |-> "ok", complete |-> "ok", insert |-> "throws", verify |-> "read"],
     [part |-> "ok", complete |-> "ok", insert |-> "lost", verify |-> "read"],
     [part |-> "ok", complete |-> "ok", insert |-> "ok", verify |-> "throws"],
     [part |-> "ok", complete |-> "ok", insert |-> "lost", verify |-> "throws"]}

NoInfo == [none |-> TRUE]
NoAlarm == -1
NoObject == -1
NoRet == [none |-> TRUE]
NoArg == -1
NoKey == "none"
NoResponse == [status |-> 0]
NoHeaders == [kind |-> "none"]

VARIABLES
    upload_info,     \* the single row of table upload_info, or NoInfo
    uploaded_parts,  \* the rows of table uploaded_parts
    scheduledAlarm,  \* ctx.storage alarm time, or NoAlarm
    r2Multipart,     \* R2: sequence of multipart uploads, indexed by handle
    r2Objects,       \* R2: key -> size of the stored object, or NoObject
    files,           \* D1: rows of table files
    insertCalls,     \* uploadId -> number of INSERT INTO files issued for it
    uuidCounter,     \* number of crypto.randomUUID() values handed out
    now,             \* Date.now()
    lastOp,          \* the last handler run: its outcome and the calls it made
    suspended,       \* uploadPart calls waiting at await multipart.uploadPart
    kv,              \* FILE_METADATA: is the namespace bound, the keys written
    response,        \* the last HTTP response of the TUS routes
    chunkRequests,   \* PATCH requests between getUploadStatus and uploadPart
    creationHeaders, \* the Upload-Length header of the request just answered
                     \* when it was a POST
    crashed          \* uploadIds whose completion a crash cut off after
                     \* multipart.complete and before the INSERT INTO files

\* the variables of the TUS routes
httpVars == <<kv, response, chunkRequests, creationHeaders>>

vars == <<upload_info, uploaded_parts, scheduledAlarm, r2Multipart, r2Objects,
          files, insertCalls, uuidCounter, now, lastOp, suspended, kv, response,
          chunkRequests, creationHeaders, crashed>>

\* --------------------------------------------------------------- helpers
RECURSIVE SumSizes(_)
SumSizes(rows) ==
    IF rows = {} THEN 0
    ELSE LET r == CHOOSE x \in rows : TRUE
         IN r.size + SumSizes(rows \ {r})

\* the world a handler works on: the variables, plus what the handler did
World ==
    [info |-> upload_info, parts |-> uploaded_parts, alarmAt |-> scheduledAlarm,
     mp |-> r2Multipart, objs |-> r2Objects, files |-> files,
     ins |-> insertCalls, calls |-> <<>>, fault |-> "none", threw |-> "none",
     verify |-> "none", ret |-> NoRet]

Call(w, c) == [w EXCEPT !.calls = Append(@, c)]
Throw(w, e) == [w EXCEPT !.threw = e]
\* the store call c failed: it throws into the handler
Fail(w, c) == [w EXCEPT !.fault = c, !.threw = c]
Return(w, r) == [w EXCEPT !.ret = r]

getUploadInfo(w) == w.info

getUploadedParts(w) == w.parts

\* ctx.storage.deleteAll(): drops the stored rows; the alarm is kept
deleteAll_InfoOnly(w) == [w EXCEPT !.info = NoInfo]

deleteAll(w) == [w EXCEPT !.info = NoInfo, !.parts = {}]

\* multipart.abort(): a handle that is no longer open, or a failing call, throws;
\* an aborted upload's parts are discarded by R2
R2Abort(w, h, outcome) ==
    LET w1 == [Call(w, "r2.abort") EXCEPT !.mp[h].aborts = @ + 1]
    IN IF outcome = "ok" /\ w.mp[h].state = "open"
       THEN [w1 EXCEPT !.mp[h].state = "aborted"]
       ELSE w1

\* deleteUpload aborts the multipart upload of a session that is not completed
DeleteAborts_Always(info) == info # NoInfo

DeleteAborts(info) == info # NoInfo /\ ~info.isCompleted

\* a deleteUpload that also removes the object of a completed upload
deleteUpload_RemovesObject(w, abortOutcome) ==
    LET info == getUploadInfo(w)
        w1 == IF DeleteAborts(info)
              THEN R2Abort(w, info.multipartUploadId, abortOutcome)
              ELSE IF info # NoInfo
              THEN [w EXCEPT !.objs[info.r2Key] = NoObject]
              ELSE w
    IN deleteAll(w1)

deleteUpload(w, abortOutcome) ==
    LET info == getUploadInfo(w)
        w1 == IF DeleteAborts(info)
              THEN R2Abort(w, info.multipartUploadId, abortOutcome)
              ELSE w
    IN deleteAll(w1)

\* alarm() aborts the multipart upload of a session that is not completed
AlarmAborts_Never(info) == FALSE

AlarmAborts(info) == ~info.isCompleted

alarmHandler(w, abortOutcome) ==
    LET info == getUploadInfo(w)
    IN IF info = NoInfo THEN w
       ELSE LET w1 == IF AlarmAborts(info)
                      THEN R2Abort(w, info.multipartUploadId, abortOutcome)
                      ELSE w
            IN deleteAll(w1)

\* ---------------------------------------------------------- createUpload
IsExpired_Always(t, info) == TRUE

IsExpired(t, info) == t > info.expiresAt

\* an existing session was created for another R2 key
KeyMismatch_Never(existingInfo, r2Key) == FALSE

KeyMismatch(existingInfo, r2Key) == existingInfo.r2Key # r2Key

\* an expiry that is the creation time itself
ExpiresAt_Now(t) == t

\* const expiresAt = now + UPLOAD_EXPIRATION_MS
ExpiresAt(t) == t + UPLOAD_EXPIRATION_MS

\* a setAlarm that leaves an alarm that is already pending in place
setAlarm_KeepsPending(w, t) ==
    Call(IF w.alarmAt # NoAlarm THEN w ELSE [w EXCEPT !.alarmAt = t], "setAlarm")

\* ctx.storage.setAlarm(expiresAt): the object has one alarm, set anew
setAlarm(w, t) == Call([w EXCEPT !.alarmAt = t], "setAlarm")

\* a resume that takes over the totalSize of the call
createUploadResume_Overwrites(w, existingInfo, totalSize) ==
    Return([w EXCEPT !.info.totalSize = totalSize],
           [action |-> "resumed", uploadId |-> existingInfo.uploadId,
            uploadedSize |-> existingInfo.uploadedSize,
            expiresAt |-> existingInfo.expiresAt])

\* the session is there and has not expired: answer from the stored row
createUploadResume(w, existingInfo, totalSize) ==
    Return(w, [action |-> "resumed", uploadId |-> existingInfo.uploadId,
               uploadedSize |-> existingInfo.uploadedSize,
               expiresAt |-> existingInfo.expiresAt])

createUpload(w, r2Key, totalSize, t, uuid, createOutcome, abortOutcome) ==
    LET existingInfo == getUploadInfo(w)
    IN IF existingInfo # NoInfo /\ KeyMismatch(existingInfo, r2Key)
       THEN Throw(w, "Conflict")
       ELSE IF existingInfo # NoInfo /\ ~IsExpired(t, existingInfo)
       THEN createUploadResume(w, existingInfo, totalSize)
       ELSE LET w1 == IF existingInfo # NoInfo THEN deleteUpload(w, abortOutcome)
                      ELSE w
                w2 == Call(w1, "r2.createMultipartUpload")
            IN IF createOutcome = "fail"
               THEN Fail(w2, "r2.createMultipartUpload")
               ELSE LET h == Len(w2.mp) + 1
                        expiresAt == ExpiresAt(t)
                        w3 == [w2 EXCEPT
                                 !.mp = Append(@, [state |-> "open", aborts |-> 0]),
                                 !.info = [uploadId |-> uuid, r2Key |-> r2Key,
                                           multipartUploadId |-> h,
                                           totalSize |-> totalSize,
                                           uploadedSize |-> 0,
                                           createdAt |-> t,
                                           expiresAt |-> expiresAt,
                                           isCompleted |-> FALSE]]
                    IN Return(setAlarm(w3, expiresAt),
                              [action |-> "created", uploadId |-> uuid,
                               uploadedSize |-> 0, expiresAt |-> expiresAt])

getUploadStatus(w) ==
    LET info == getUploadInfo(w)
    IN IF info = NoInfo THEN Return(w, [found |-> FALSE])
       ELSE Return(w, [found |-> TRUE, uploadId |-> info.uploadId,
                       uploadedSize |-> info.uploadedSize,
                       totalSize |-> info.totalSize,
                       expiresAt |-> info.expiresAt,
                       isCompleted |-> info.isCompleted])

\* ------------------------------------------------ completion and metadata
\* SELECT ... FROM files WHERE id = ? : is there a row
RowWithId(fs, fileId) == \E f \in fs : f.id = fileId

\* a record written without the size of the upload
FinalRecord_NoSize(info) ==
    [id |-> info.uploadId, size |-> 0, r2Key |-> info.r2Key]

\* the row of INSERT INTO files: id, size and r2Key of the session
FinalRecord(info) ==
    [id |-> info.uploadId, size |-> info.totalSize, r2Key |-> info.r2Key]

writeMetadataToD1(w, info, b) ==
    LET fileId == info.uploadId
        w1 == [Call(w, "d1.insert") EXCEPT !.ins[fileId] = @ + 1]
    IN IF b.insert = "throws" \/ RowWithId(w.files, fileId)
       THEN Fail(w1, "d1.insert")
       ELSE LET w2 == IF b.insert = "ok"
                      THEN [w1 EXCEPT !.files = @ \cup {FinalRecord(info)}]
                      ELSE w1
                w3 == Call(w2, "d1.first")
            IN IF b.verify = "throws"
               THEN Fail(w3, "d1.first")
               ELSE [w3 EXCEPT !.verify =
                        IF RowWithId(w2.files, fileId) THEN "found"
                        ELSE "absent"]

\* multipart.complete(parts): R2 assembles the listed parts into the object
R2Complete(w, h, r2Key, parts) ==
    [w EXCEPT !.mp[h].state = "completed", !.objs[r2Key] = SumSizes(parts)]

\* a completion that forgets UPDATE upload_info SET is_completed = 1
MarkCompleted_Missing(w) == w

\* UPDATE upload_info SET is_completed = 1 WHERE id = 1
MarkCompleted(w) == [w EXCEPT !.info.isCompleted = TRUE]

\* a catch block that gives the upload up and cancels the alarm
completeUploadCatch_Cancels(w) == [w EXCEPT !.alarmAt = NoAlarm]

\* the catch block of completeUpload: logs and rethrows
completeUploadCatch(w) == w

completeUpload(w, b) ==
    LET info == getUploadInfo(w)
    IN IF info = NoInfo \/ info.isCompleted THEN w
       ELSE LET parts == getUploadedParts(w)
                h == info.multipartUploadId
            IN IF parts = {} THEN Throw(w, "No parts uploaded")
               ELSE LET w1 == Call(w, "r2.complete")
                    IN IF b.complete = "fail" \/ w.mp[h].state # "open"
                       THEN completeUploadCatch(Fail(w1, "r2.complete"))
                       ELSE LET w2 == MarkCompleted(
                                          R2Complete(w1, h, info.r2Key, parts))
                                w3 == writeMetadataToD1(w2, info, b)
                            IN IF w3.threw # "none" THEN completeUploadCatch(w3)
                               ELSE [Call(w3, "deleteAlarm") EXCEPT
                                        !.alarmAt = NoAlarm]

\* ------------------------------------------------------------ uploadPart
\* an uploadPart without the early return for a completed upload
AlreadyCompleted_Never(info) == FALSE

AlreadyCompleted(info) == info.isCompleted

\* an offset check that only rejects offsets behind the server's
OffsetMatches_AtLeast(offset, info) == offset >= info.uploadedSize

OffsetMatches(offset, info) == offset = info.uploadedSize

\* a part number counted from zero
PartNumber_ZeroBased(parts) == Cardinality(parts)

PartNumber(parts) == Cardinality(parts) + 1

\* an uploaded size set to the chunk's length instead of advanced by it
NewUploadedSize_ChunkOnly(info, byteLength) == byteLength

NewUploadedSize(info, byteLength) == info.uploadedSize + byteLength

\* a completion started after every part
ReachedTotal_Always(newUploadedSize, info) == TRUE

ReachedTotal(newUploadedSize, info) == newUploadedSize >= info.totalSize

\* multipart.uploadPart(partNumber, data): R2 keeps the bytes under the handle
R2UploadPart(w, h, partNumber, byteLength) ==
    Call(w, "r2.uploadPart")

\* a catch block that logs and answers with the stored state
uploadPartCatch_Swallow(w) ==
    [w EXCEPT !.threw = "none",
              !.ret = [uploadedSize |-> w.info.uploadedSize,
                       isCompleted |-> w.info.isCompleted]]

\* the catch block of uploadPart: logs and rethrows
uploadPartCatch(w) == w

uploadPartNotFound_Returns(w) == Return(w, [uploadedSize |-> 0, isCompleted |-> FALSE])

\* no row in upload_info: throw new Error('Upload not found')
uploadPartNotFound(w) == Throw(w, "Upload not found")

\* an early return that first writes the record when table files lacks it
uploadPartCompleted_Repairs(w, info) ==
    Return(IF RowWithId(w.files, info.uploadId) THEN w
           ELSE [w EXCEPT !.files = @ \cup {FinalRecord(info)}],
           [uploadedSize |-> info.uploadedSize, isCompleted |-> TRUE])

\* the upload is completed already: return the stored size
uploadPartCompleted(w, info) ==
    Return(w, [uploadedSize |-> info.uploadedSize, isCompleted |-> TRUE])

uploadPart(w, offset, byteLength, b) ==
    LET info == getUploadInfo(w)
    IN IF info = NoInfo THEN uploadPartNotFound(w)
       ELSE IF AlreadyCompleted(info)
       THEN uploadPartCompleted(w, info)
       ELSE IF ~OffsetMatches(offset, info) THEN Throw(w, "Offset mismatch")
       ELSE LET parts == getUploadedParts(w)
                partNumber == PartNumber(parts)
                h == info.multipartUploadId
            IN IF b.part = "fail" \/ w.mp[h].state # "open"
               THEN uploadPartCatch(Fail(Call(w, "r2.uploadPart"), "r2.uploadPart"))
               ELSE LET w1 == R2UploadPart(w, h, partNumber, byteLength)
                    IN IF \E p \in parts : p.partNumber = partNumber
                       THEN uploadPartCatch(Throw(w1, "SQLITE_CONSTRAINT"))
                       ELSE LET newUploadedSize == NewUploadedSize(info, byteLength)
                                w2 == [w1 EXCEPT
                                         !.parts = @ \cup
                                            {[partNumber |-> partNumber,
                                              etag |-> partNumber,
                                              size |-> byteLength]},
                                         !.info.uploadedSize = newUploadedSize]
                            IN IF ReachedTotal(newUploadedSize, info)
                               THEN LET w3 == completeUpload(w2, b)
                                    IN IF w3.threw # "none" THEN uploadPartCatch(w3)
                                       ELSE Return(w3,
                                              [uploadedSize |-> newUploadedSize,
                                               isCompleted |-> TRUE])
                               ELSE Return(w2, [uploadedSize |-> newUploadedSize,
                                                isCompleted |-> FALSE])

\* uploadPart from the answer of await multipart.uploadPart on.  k holds the
\* chunk and what the call read before the await: the upload_info row and the
\* part number.  The INSERT and the UPDATE act on the tables as they are now;
\* the UPDATE ... WHERE id = 1 changes nothing when the row is gone.
uploadPartResume(w, k, b) ==
    LET info == k.info
        partNumber == k.partNumber
    IN IF \E p \in w.parts : p.partNumber = partNumber
       THEN uploadPartCatch(Throw(w, "SQLITE_CONSTRAINT"))
       ELSE LET newUploadedSize == NewUploadedSize(info, k.byteLength)
                w1 == [w EXCEPT !.parts = @ \cup {[partNumber |-> partNumber,
                                                   etag |-> partNumber,
                                                   size |-> k.byteLength]}]
                w2 == IF w1.info = NoInfo THEN w1
                      ELSE [w1 EXCEPT !.info.uploadedSize = newUploadedSize]
            IN IF ReachedTotal(newUploadedSize, info)
               THEN LET w3 == completeUpload(w2, b)
                    IN IF w3.threw # "none" THEN uploadPartCatch(w3)
                       ELSE Return(w3, [uploadedSize |-> newUploadedSize,
                                        isCompleted |-> TRUE])
               ELSE Return(w2, [uploadedSize |-> newUploadedSize,
                                isCompleted |-> FALSE])

\* ---------------------------------------------------------------- actions
Called(w, c) == \E i \in 1..Len(w.calls) : w.calls[i] = c

\* A store failure is drawn only for a call the handler makes: a failure of a
\* call that is never reached gives the same step as the call succeeding.
AbortDrawn(w, ao) == ao = "fail" => Called(w, "r2.abort")

CreateDrawn(w, co) == co = "fail" => w.fault = "r2.createMultipartUpload"

BehaviourDrawn(w, b) ==
    /\ b.part = "fail" => w.fault = "r2.uploadPart"
    /\ b.complete = "fail" => w.fault = "r2.complete"
    /\ b.insert = "throws" => w.fault = "d1.insert"
    /\ b.insert = "lost" => Called(w, "d1.first")
    /\ b.verify = "throws" => w.fault = "d1.first"

Commit(w, op, offset, r2Key, totalSize) ==
    /\ upload_info' = w.info
    /\ uploaded_parts' = w.parts
    /\ scheduledAlarm' = w.alarmAt
    /\ r2Multipart' = w.mp
    /\ r2Objects' = w.objs
    /\ files' = w.files
    /\ insertCalls' = w.ins
    /\ lastOp' = [op |-> op, offset |-> offset, r2Key |-> r2Key,
                  totalSize |-> totalSize, threw |-> w.threw, ret |-> w.ret,
                  calls |-> w.calls, fault |-> w.fault, verify |-> w.verify]

\* a fresh object; the routes have answered nothing yet
InitObject ==
    /\ upload_info = NoInfo
    /\ uploaded_parts = {}
    /\ scheduledAlarm = NoAlarm
    /\ r2Multipart = <<>>
    /\ r2Objects = [k \in R2Keys |-> NoObject]
    /\ files = {}
    /\ insertCalls = [u \in UploadIds |-> 0]
    /\ uuidCounter = 0
    /\ now = 0
    /\ lastOp = [op |-> "init", offset |-> NoArg, r2Key |-> NoKey, totalSize |-> NoArg,
                 threw |-> "none", ret |-> NoRet,
                 calls |-> <<>>, fault |-> "none", verify |-> "none"]
    /\ suspended = <<>>
    /\ response = NoResponse
    /\ chunkRequests = <<>>
    /\ creationHeaders = NoHeaders
    /\ crashed = {}

Init == InitObject /\ kv = [bound |-> TRUE, keys |-> {}]

\* createUpload called with an r2Key drawn from keys and a totalSize drawn
\* from sizes
CreateUploadWith(keys, sizes) ==
    \E r2Key \in keys, totalSize \in sizes, co \in Outcome, ao \in Outcome :
        \E w \in {createUpload(World, r2Key, totalSize, now, uuidCounter + 1, co, ao)} :
            LET created == w.ret # NoRet /\ w.ret.action = "created"
            IN /\ AbortDrawn(w, ao)
               /\ CreateDrawn(w, co)
               /\ created => uuidCounter < MaxUploads /\ totalSize \in TotalSizes
               /\ uuidCounter' = IF created THEN uuidCounter + 1 ELSE uuidCounter
               /\ now' = now
               /\ Commit(w, "createUpload", NoArg, r2Key, totalSize)
               /\ UNCHANGED <<suspended, httpVars, crashed>>

CreateUpload == CreateUploadWith(R2Keys, RequestedSizes)

GetUploadStatus ==
    /\ \E w \in {getUploadStatus(World)} : Commit(w, "getUploadStatus", NoArg, NoKey, NoArg)
    /\ UNCHANGED <<uuidCounter, now, suspended, httpVars, crashed>>

UploadPart ==
    \E offset \in Offsets, byteLength \in ChunkLens, b \in StoreBehaviours :
        \E w \in {uploadPart(World, offset, byteLength, b)} :
            /\ BehaviourDrawn(w, b)
            /\ Cardinality(w.parts) <= MaxParts
            /\ Commit(w, "uploadPart", offset, NoKey, NoArg)
            /\ UNCHANGED <<uuidCounter, now, suspended, httpVars, crashed>>

DeleteUpload ==
    \E ao \in Outcome :
        /\ \E w \in {deleteUpload(World, ao)} :
            AbortDrawn(w, ao) /\ Commit(w, "deleteUpload", NoArg, NoKey, NoArg)
        /\ UNCHANGED <<uuidCounter, now, suspended, httpVars, crashed>>

Alarm ==
    /\ scheduledAlarm # NoAlarm
    /\ now >= scheduledAlarm
    /\ \E ao \in Outcome :
        \E w \in {alarmHandler([World EXCEPT !.alarmAt = NoAlarm], ao)} :
            AbortDrawn(w, ao) /\ Commit(w, "alarm", NoArg, NoKey, NoArg)
    /\ UNCHANGED <<uuidCounter, now, suspended, httpVars, crashed>>

Tick ==
    /\ now < MaxTime
    /\ now' = now + 1
    /\ lastOp' = [op |-> "tick", offset |-> NoArg, r2Key |-> NoKey, totalSize |-> NoArg,
                 threw |-> "none", ret |-> NoRet,
                  calls |-> <<>>, fault |-> "none", verify |-> "none"]
    /\ UNCHANGED <<upload_info, uploaded_parts, scheduledAlarm, r2Multipart,
                   r2Objects, files, insertCalls, uuidCounter, suspended,
                   httpVars, crashed>>

Next ==
    \/ CreateUpload
    \/ GetUploadStatus
    \/ UploadPart
    \/ DeleteUpload
    \/ Alarm
    \/ Tick

Spec == Init /\ [][Next]_vars

\* Spec with the clock running and every alarm that is due delivered
SpecLive == Init /\ [][Next]_vars /\ WF_vars(Tick) /\ WF_vars(Alarm)

\* uploadPart up to await multipart.uploadPart(partNumber, data): the call has
\* found the session, passed the completed and offset checks, counted the part
\* rows and sent the chunk to R2, which accepts it
UploadPartBegin ==
    /\ Len(suspended) < MaxSuspended
    /\ upload_info # NoInfo
    /\ ~AlreadyCompleted(upload_info)
    /\ r2Multipart[upload_info.multipartUploadId].state = "open"
    /\ \E offset \in Offsets, byteLength \in ChunkLens :
          /\ OffsetMatches(offset, upload_info)
          /\ suspended' = Append(suspended,
                [offset |-> offset, byteLength |-> byteLength,
                 partNumber |-> PartNumber(getUploadedParts(World)),
                 info |-> getUploadInfo(World)])
          /\ lastOp' = [op |-> "uploadPartAwait", offset |-> offset,
                        r2Key |-> NoKey, totalSize |-> NoArg,
                 threw |-> "none", ret |-> NoRet,
                        calls |-> <<"r2.uploadPart">>, fault |-> "none",
                        verify |-> "none"]
    /\ UNCHANGED <<upload_info, uploaded_parts, scheduledAlarm, r2Multipart,
                   r2Objects, files, insertCalls, uuidCounter, now, httpVars, crashed>>

\* a suspended uploadPart gets the answer of R2 and runs to its end
UploadPartResume ==
    \E i \in 1..Len(suspended), b \in StoreBehaviours :
        \E w \in {uploadPartResume(World, suspended[i], b)} :
            /\ BehaviourDrawn(w, b)
            /\ Cardinality(w.parts) <= MaxParts
            /\ Commit(w, "uploadPart", suspended[i].offset, NoKey, NoArg)
            /\ suspended' = SubSeq(suspended, 1, i - 1)
                               \o SubSeq(suspended, i + 1, Len(suspended))
            /\ UNCHANGED <<uuidCounter, now, httpVars, crashed>>

\* the calls of Spec for one r2Key within a session's lifetime (the clock
\* stands still, so no alarm fires), and calls delivered while uploadPart
\* calls are suspended
NextAwait ==
    \/ CreateUploadWith({UrlKey}, TotalSizes)
    \/ UploadPart
    \/ DeleteUpload
    \/ UploadPartBegin
    \/ UploadPartResume

SpecAwait == Init /\ [][NextAwait]_vars

\* ------------------------------------------------------- the TUS routes
\* The routes of api/upload-tus, for the requests that reach this object: the
\* object is named by the upload id of the URL, and POST names a fresh one.
\* Upload-Length header values: absent, not a number, a number that is not an
\* integer, or an integer
UploadLengthHeaders ==
    {[kind |-> "missing"], [kind |-> "text"], [kind |-> "fraction"]}
        \cup {[kind |-> "integer", value |-> n] : n \in (-1)..(TUS_MAX_SIZE + 1)}

\* Upload-Metadata filename values: absent or given
Filenames == {"", "f"}

\* a creation schema that lets a length of zero through
ParseUploadLength_Nonnegative(h) ==
    IF h.kind = "integer" /\ h.value >= 0
    THEN [success |-> TRUE, data |-> h.value]
    ELSE [success |-> FALSE]

\* tusCreationHeadersSchema: z.coerce.number().int().positive()
ParseUploadLength(h) ==
    IF h.kind \in {"missing", "text"} THEN [success |-> FALSE]
    ELSE IF h.kind = "fraction" THEN [success |-> FALSE]
    ELSE IF h.value <= 0 THEN [success |-> FALSE]
    ELSE [success |-> TRUE, data |-> h.value]

\* an HTTP response: status, Upload-Offset (or the offset named in a 409
\* message) and Upload-Length
Respond(w, k, status, offset, length) ==
    [w |-> w, kv |-> k,
     resp |-> [status |-> status, offset |-> offset, length |-> length]]

\* the request goes on to its next call of the object
Proceed(w, k) == [w |-> w, kv |-> k, resp |-> NoResponse]

handleTusUploadCreation(w, k, h, filename, r2Key, t, uuid, co, ao) ==
    LET validatedHeaders == ParseUploadLength(h)
    IN IF ~validatedHeaders.success THEN Respond(w, k, 400, NoArg, NoArg)
       ELSE IF validatedHeaders.data > TUS_MAX_SIZE
       THEN Respond(w, k, 413, NoArg, NoArg)
       ELSE IF filename = "" THEN Respond(w, k, 400, NoArg, NoArg)
       ELSE LET w1 == createUpload(w, r2Key, validatedHeaders.data, t, uuid, co, ao)
            IN IF w1.threw # "none" THEN Respond(w1, k, 500, NoArg, NoArg)
               ELSE Respond(w1, k, 201, 0, NoArg)

\* clientOffset !== status.uploadedSize
StaleOffset(clientOffset, status) == clientOffset # status.uploadedSize

\* handleTusUploadChunk up to the call of uploadPart
handleTusUploadChunkStatus(w, k, clientOffset) ==
    LET w1 == getUploadStatus(w)
        status == w1.ret
    IN IF ~status.found THEN Respond(w1, k, 404, NoArg, NoArg)
       ELSE IF StaleOffset(clientOffset, status)
       THEN Respond(w1, k, 409, status.uploadedSize, NoArg)
       ELSE IF status.isCompleted
       THEN Respond(w1, k, 204, status.uploadedSize, NoArg)
       ELSE Proceed(w1, k)

\* an error mapping that answers every failure with 500
ChunkErrorStatus_Always500(message) == 500

\* the catch block of handleTusUploadChunk: the status for an error message
ChunkErrorStatus(message) ==
    IF message = "Offset mismatch" THEN 409
    ELSE IF message = "Upload not found" THEN 404
    ELSE 500

\* handleTusUploadChunk from the call of uploadPart on; the message of an
\* offset mismatch names the uploaded size the object found
handleTusUploadChunkUpload(w, k, req, b, kvOutcome) ==
    LET w1 == uploadPart(w, req.clientOffset, req.byteLength, b)
    IN IF w1.threw # "none"
       THEN Respond(w1, k, ChunkErrorStatus(w1.threw),
                    IF w1.threw = "Offset mismatch" THEN w1.info.uploadedSize
                    ELSE NoArg, NoArg)
       ELSE IF w1.ret.isCompleted /\ k.bound
       THEN IF kvOutcome = "fail"
            THEN Respond(Call(w1, "kv.put"), k, ChunkErrorStatus("kv.put"),
                         NoArg, NoArg)
            ELSE Respond(Call(w1, "kv.put"), [k EXCEPT !.keys = @ \cup {"file"}], 204,
                         w1.ret.uploadedSize, NoArg)
       ELSE Respond(w1, k, 204, w1.ret.uploadedSize, NoArg)

handleTusUploadHead(w, k) ==
    LET w1 == getUploadStatus(w)
        status == w1.ret
    IN IF ~status.found THEN Respond(w1, k, 404, NoArg, NoArg)
       ELSE Respond(w1, k, 200, status.uploadedSize, status.totalSize)

handleTusUploadDelete(w, k, ao) ==
    Respond(deleteUpload(w, ao), k, 204, NoArg, NoArg)

\* the FILE_METADATA namespace is bound in the deployment, or it is not
InitHttp == InitObject /\ kv \in {[bound |-> x, keys |-> {}] : x \in BOOLEAN}

\* POST: a request that passes validation reaches this object only as the
\* first call made to it, the upload id of the URL being fresh
HttpCreate ==
    \E h \in UploadLengthHeaders, filename \in Filenames, r2Key \in {UrlKey} :
        \E co \in Outcome, ao \in Outcome :
            \E r \in {handleTusUploadCreation(World, kv, h, filename, r2Key,
                                              now, uuidCounter + 1, co, ao)} :
                LET reached == r.resp.status \in {201, 500}
                IN /\ AbortDrawn(r.w, ao)
                   /\ CreateDrawn(r.w, co)
                   /\ reached => (uuidCounter = 0 /\ upload_info = NoInfo)
                   /\ uuidCounter' = IF r.resp.status = 201 THEN uuidCounter + 1
                                     ELSE uuidCounter
                   /\ Commit(r.w, IF reached THEN "createUpload" ELSE "rejected",
                             NoArg, r2Key, NoArg)
                   /\ response' = r.resp
                   /\ kv' = r.kv
                   /\ creationHeaders' = h
                   /\ UNCHANGED <<now, suspended, chunkRequests, crashed>>

\* PATCH, first call of the object: getUploadStatus and the adapter's checks
PatchStatus ==
    \E clientOffset \in Offsets, byteLength \in ChunkLens :
        \E r \in {handleTusUploadChunkStatus(World, kv, clientOffset)} :
            /\ IF r.resp = NoResponse
               THEN /\ Len(chunkRequests) < MaxChunkRequests
                    /\ chunkRequests' = Append(chunkRequests,
                           [clientOffset |-> clientOffset,
                            byteLength |-> byteLength])
                    /\ response' = response
               ELSE /\ chunkRequests' = chunkRequests
                    /\ response' = r.resp
            /\ Commit(r.w, "getUploadStatus", clientOffset, NoKey, NoArg)
            /\ kv' = r.kv
            /\ creationHeaders' = NoHeaders
            /\ UNCHANGED <<uuidCounter, now, suspended, crashed>>

\* PATCH, second call of the object: uploadPart, the KV write and the answer
PatchUpload ==
    \E i \in 1..Len(chunkRequests), b \in StoreBehaviours, ko \in Outcome :
        \E r \in {handleTusUploadChunkUpload(World, kv, chunkRequests[i], b, ko)} :
            /\ BehaviourDrawn(r.w, b)
            /\ ko = "fail" => r.resp.status = 500 /\ Called(r.w, "kv.put")
            /\ Cardinality(r.w.parts) <= MaxParts
            /\ Commit(r.w, "uploadPart", chunkRequests[i].clientOffset, NoKey, NoArg)
            /\ response' = r.resp
            /\ kv' = r.kv
            /\ chunkRequests' = SubSeq(chunkRequests, 1, i - 1)
                                   \o SubSeq(chunkRequests, i + 1,
                                             Len(chunkRequests))
            /\ creationHeaders' = NoHeaders
            /\ UNCHANGED <<uuidCounter, now, suspended, crashed>>

HttpHead ==
    \E r \in {handleTusUploadHead(World, kv)} :
        /\ Commit(r.w, "getUploadStatus", NoArg, NoKey, NoArg)
        /\ response' = r.resp
        /\ kv' = r.kv
        /\ creationHeaders' = NoHeaders
        /\ UNCHANGED <<uuidCounter, now, suspended, chunkRequests, crashed>>

HttpDelete ==
    \E ao \in Outcome :
        \E r \in {handleTusUploadDelete(World, kv, ao)} :
            /\ AbortDrawn(r.w, ao)
            /\ Commit(r.w, "deleteUpload", NoArg, NoKey, NoArg)
            /\ response' = r.resp
            /\ kv' = r.kv
            /\ creationHeaders' = NoHeaders
            /\ UNCHANGED <<uuidCounter, now, suspended, chunkRequests, crashed>>

\* the requests of the TUS routes within a session's lifetime (the clock
\* stands still, so no alarm fires)
NextHttp ==
    \/ HttpCreate
    \/ PatchStatus
    \/ PatchUpload
    \/ HttpHead
    \/ HttpDelete

SpecHttp == InitHttp /\ [][NextHttp]_vars

\* ---------------------------------------------------- crash and restart
\* The process may stop while a handler waits at an await.  What the handler
\* wrote to the object's storage before that await stays, what it held in
\* memory is lost, and the constructor's CREATE TABLE IF NOT EXISTS changes
\* nothing on restart.  Statements between two awaits are stored together.
\* a crash that may also fall between the INSERT of the part and the UPDATE
CrashPoints_AnyStatement == {"r2.uploadPart", "sql.insert", "r2.complete", "d1.insert"}

\* the awaits of uploadPart and of the completion it runs: multipart.uploadPart,
\* multipart.complete and the D1 INSERT of writeMetadataToD1
CrashPoints == {"r2.uploadPart", "r2.complete", "d1.insert"}

\* the handler stopped at an await
Crash(w) == Throw(w, "crash")

\* uploadPart cut off at the await named point; done says whether the awaited
\* call had taken effect in its store.  A call that does not get to that await
\* is returned as it ended.
uploadPartCrash(w, offset, byteLength, point, done) ==
    LET info == getUploadInfo(w)
    IN IF info = NoInfo \/ AlreadyCompleted(info) \/ ~OffsetMatches(offset, info)
       THEN uploadPart(w, offset, byteLength, CHOOSE b \in StoreBehaviours : TRUE)
       ELSE LET parts == getUploadedParts(w)
                partNumber == PartNumber(parts)
                h == info.multipartUploadId
                w1 == Call(w, "r2.uploadPart")
                newUploadedSize == NewUploadedSize(info, byteLength)
                row == [partNumber |-> partNumber, etag |-> partNumber,
                        size |-> byteLength]
                w2 == [w1 EXCEPT !.parts = @ \cup {row},
                                 !.info.uploadedSize = newUploadedSize]
                w3 == Call(w2, "r2.complete")
                w4 == MarkCompleted(R2Complete(w3, h, info.r2Key, w2.parts))
                w5 == [Call(w4, "d1.insert") EXCEPT !.ins[info.uploadId] = @ + 1]
            IN IF point = "r2.uploadPart" \/ w.mp[h].state # "open"
               THEN Crash(w1)
               ELSE IF point = "sql.insert"
               THEN Crash([w1 EXCEPT !.parts = @ \cup {row}])
               ELSE IF ~ReachedTotal(newUploadedSize, info)
               THEN Return(w2, [uploadedSize |-> newUploadedSize,
                                isCompleted |-> FALSE])
               ELSE IF point = "r2.complete"
               THEN Crash(IF done THEN R2Complete(w3, h, info.r2Key, w2.parts)
                          ELSE w3)
               ELSE IF done /\ ~RowWithId(w.files, info.uploadId)
               THEN Crash([w5 EXCEPT !.files = @ \cup {FinalRecord(info)}])
               ELSE Crash(w5)

\* createUpload cut off at await createMultipartUpload; done says whether R2
\* had opened the multipart upload
createUploadCrash(w, r2Key, t, abortOutcome, done) ==
    LET existingInfo == getUploadInfo(w)
    IN IF existingInfo # NoInfo /\ KeyMismatch(existingInfo, r2Key)
       THEN Throw(w, "Conflict")
       ELSE IF existingInfo # NoInfo /\ ~IsExpired(t, existingInfo)
       THEN createUploadResume(w, existingInfo, existingInfo.totalSize)
       ELSE LET w1 == IF existingInfo # NoInfo THEN deleteUpload(w, abortOutcome)
                      ELSE w
                w2 == Call(w1, "r2.createMultipartUpload")
            IN Crash(IF done
                     THEN [w2 EXCEPT !.mp = Append(@, [state |-> "open",
                                                       aborts |-> 0])]
                     ELSE w2)

\* the session's multipart upload is completed in R2 and table files has no
\* record of the session
RecordMissing(w) ==
    /\ w.info # NoInfo
    /\ w.mp[w.info.multipartUploadId].state = "completed"
    /\ ~RowWithId(w.files, w.info.uploadId)

UploadPartCrash ==
    \E offset \in Offsets, byteLength \in ChunkLens, point \in CrashPoints :
        \E done \in BOOLEAN :
            \E w \in {uploadPartCrash(World, offset, byteLength, point, done)} :
                /\ w.threw = "crash"
                /\ done => point # "r2.uploadPart"
                /\ Cardinality(w.parts) <= MaxParts
                /\ Commit(w, "uploadPart", offset, NoKey, NoArg)
                /\ crashed' = IF RecordMissing(w)
                              THEN crashed \cup {w.info.uploadId}
                              ELSE crashed
                /\ UNCHANGED <<uuidCounter, now, suspended, httpVars>>

CreateUploadCrash ==
    \E r2Key \in {UrlKey}, ao \in Outcome, done \in BOOLEAN :
        \E w \in {createUploadCrash(World, r2Key, now, ao, done)} :
            /\ w.threw = "crash"
            /\ AbortDrawn(w, ao)
            /\ Len(w.mp) <= MaxUploads
            /\ Commit(w, "createUpload", NoArg, r2Key, NoArg)
            /\ UNCHANGED <<uuidCounter, now, suspended, httpVars, crashed>>

\* the calls of Spec for one r2Key, and the calls that a crash cuts off
NextCrash ==
    \/ CreateUploadWith({UrlKey}, TotalSizes)
    \/ GetUploadStatus
    \/ UploadPart
    \/ DeleteUpload
    \/ Alarm
    \/ Tick
    \/ UploadPartCrash
    \/ CreateUploadCrash

SpecCrash == Init /\ [][NextCrash]_vars

\* ------------------------------------------------------------ properties
SessionExists == upload_info # NoInfo

Active == SessionExists /\ ~upload_info.isCompleted

\* the step keeps the same session alive
SameSession ==
    /\ upload_info # NoInfo
    /\ upload_info' # NoInfo
    /\ upload_info'.uploadId = upload_info.uploadId

UploadPartStep == lastOp'.op = "uploadPart"

PartNumbers(parts) == {p.partNumber : p \in parts}

\* C1: on an existing, not completed session, uploadPart with an offset other
\* than uploadedSize throws "Offset mismatch", makes no blob-store call and
\* leaves uploadedSize and the part rows as they were.
C1_OffsetRejected ==
    [][(UploadPartStep /\ Active /\ lastOp'.offset # upload_info.uploadedSize)
         => /\ lastOp'.threw = "Offset mismatch"
            /\ lastOp'.ret = NoRet
            /\ lastOp'.calls = <<>>
            /\ upload_info' = upload_info
            /\ uploaded_parts' = uploaded_parts
            /\ r2Multipart' = r2Multipart]_vars

C1_Witness ==
    /\ lastOp.op = "uploadPart"
    /\ lastOp.threw = "Offset mismatch"
    /\ Active
    /\ uploaded_parts # {}
    /\ lastOp.offset # upload_info.uploadedSize

C4_UploadedWithinTotal ==
    SessionExists => upload_info.uploadedSize <= upload_info.totalSize

\* C5: on a completed session every uploadPart is a no-op success: no store
\* call, no new part, the same uploadedSize, and it returns that uploadedSize
\* with isCompleted = true.
C5_CompletedIsFrozen ==
    [][(UploadPartStep /\ SessionExists /\ upload_info.isCompleted)
         => /\ lastOp'.threw = "none"
            /\ lastOp'.calls = <<>>
            /\ lastOp'.ret = [uploadedSize |-> upload_info.uploadedSize,
                              isCompleted |-> TRUE]
            /\ UNCHANGED <<upload_info, uploaded_parts, r2Multipart, r2Objects,
                           files, insertCalls, scheduledAlarm>>]_vars

C5_Witness ==
    /\ lastOp.op = "uploadPart"
    /\ lastOp.calls = <<>>
    /\ lastOp.ret # NoRet
    /\ SessionExists
    /\ upload_info.isCompleted
    /\ lastOp.offset # upload_info.uploadedSize

\* C6: when the blob store's upload-part call fails, uploadPart reports the
\* failure and neither the session row nor the part rows change, so the
\* offset of the failed call is still the one the session accepts.
C6_PartFailureChangesNothing ==
    [][(UploadPartStep /\ lastOp'.fault = "r2.uploadPart")
         => /\ lastOp'.threw # "none"
            /\ lastOp'.ret = NoRet
            /\ upload_info' = upload_info
            /\ uploaded_parts' = uploaded_parts
            /\ Active'
            /\ OffsetMatches(lastOp'.offset, upload_info')]_vars

C6_Witness ==
    /\ lastOp.op = "uploadPart"
    /\ lastOp.fault = "r2.uploadPart"
    /\ Active
    /\ lastOp.offset = upload_info.uploadedSize

\* C7: an uploadPart call that reports failure leaves uploadedSize, the parts
\* and the completed flag exactly as they were before the call.
C7_FailedCallChangesNothing ==
    [][(UploadPartStep /\ lastOp'.threw # "none")
         => /\ upload_info' = upload_info
            /\ uploaded_parts' = uploaded_parts]_vars

\* C8 as stated: a session whose uploadedSize has reached totalSize has had
\* exactly one INSERT INTO files issued for its upload.
C8_ReachedTotalHasOneInsert ==
    (SessionExists /\ upload_info.uploadedSize >= upload_info.totalSize)
        => insertCalls[upload_info.uploadId] = 1

\* C8 amended: no upload ever gets a second INSERT INTO files; a completed
\* session has had exactly one and a session that is not completed none;
\* uploadPart on a completed session issues none.
C8_AtMostOneInsert ==
    [][/\ \A u \in UploadIds : insertCalls'[u] <= 1
       /\ upload_info' # NoInfo
          => insertCalls'[upload_info'.uploadId]
               = (IF upload_info'.isCompleted THEN 1 ELSE 0)
       /\ (UploadPartStep /\ SessionExists /\ upload_info.isCompleted)
          => insertCalls' = insertCalls]_vars

C8_Witness ==
    /\ lastOp.op = "uploadPart"
    /\ lastOp.calls = <<>>
    /\ SessionExists
    /\ upload_info.isCompleted
    /\ insertCalls[upload_info.uploadId] = 1
    /\ lastOp.offset = upload_info.uploadedSize

\* C9: when the read-back of the record just written finds nothing or fails,
\* the completed blob object is deleted and the session is not completed.
C9_RollbackOnVerificationFailure ==
    (lastOp.op = "uploadPart"
        /\ (lastOp.verify = "absent" \/ lastOp.fault = "d1.first"))
        => /\ SessionExists
           /\ ~upload_info.isCompleted
           /\ r2Objects[upload_info.r2Key] = NoObject

\* C10: when the read-back finds nothing or fails, uploadPart reports an
\* error; it does not return success with isCompleted = true.
C10_VerificationFailureIsReported ==
    (lastOp.op = "uploadPart"
        /\ (lastOp.verify = "absent" \/ lastOp.fault = "d1.first"))
        => /\ lastOp.threw # "none"
           /\ lastOp.ret = NoRet

CreateUploadStep == lastOp'.op = "createUpload"

\* number of times a call was made during the last operation
CallCount(calls, c) == Cardinality({i \in 1..Len(calls) : calls[i] = c})

\* C11: createUpload on an existing session with the same R2 key that has not
\* expired returns action "resumed" with the session's uploadId, uploadedSize
\* and expiresAt, calls no store and changes no state; right after the call
\* that created the session it returns the same three values again, so the
\* multipart upload was opened exactly once over the two calls.
C11_ResumeIsIdempotent ==
    [][(CreateUploadStep /\ SessionExists
            /\ lastOp'.r2Key = upload_info.r2Key
            /\ now <= upload_info.expiresAt)
        => /\ lastOp'.threw = "none"
           /\ lastOp'.ret = [action |-> "resumed",
                             uploadId |-> upload_info.uploadId,
                             uploadedSize |-> upload_info.uploadedSize,
                             expiresAt |-> upload_info.expiresAt]
           /\ lastOp'.calls = <<>>
           /\ UNCHANGED <<upload_info, uploaded_parts, scheduledAlarm,
                          r2Multipart, r2Objects, files, insertCalls>>
           /\ (lastOp.op = "createUpload" /\ lastOp.ret # NoRet
                  /\ lastOp.ret.action = "created")
              => /\ lastOp'.ret = [lastOp.ret EXCEPT !.action = "resumed"]
                 /\ CallCount(lastOp.calls \o lastOp'.calls,
                              "r2.createMultipartUpload") = 1]_vars

C11_Witness ==
    /\ lastOp.op = "createUpload"
    /\ lastOp.ret # NoRet
    /\ lastOp.ret.action = "resumed"
    /\ lastOp.ret.uploadedSize = 0
    /\ uploaded_parts = {}
    /\ Len(r2Multipart) = 1

\* C12: createUpload on an existing session with a different R2 key throws
\* Conflict, whether or not the session is expired or completed; it calls no
\* store and leaves the session, its parts and the alarm as they were.
C12_ConflictChangesNothing ==
    [][(CreateUploadStep /\ SessionExists
            /\ lastOp'.r2Key # upload_info.r2Key)
        => /\ lastOp'.threw = "Conflict"
           /\ lastOp'.ret = NoRet
           /\ lastOp'.calls = <<>>
           /\ UNCHANGED <<upload_info, uploaded_parts, scheduledAlarm,
                          r2Multipart, r2Objects, files, insertCalls>>]_vars

C12_Witness ==
    /\ lastOp.op = "createUpload"
    /\ lastOp.threw = "Conflict"
    /\ SessionExists
    /\ upload_info.isCompleted
    /\ now > upload_info.expiresAt
    /\ scheduledAlarm = NoAlarm

\* createUpload for the R2 key of an existing session whose expiresAt has passed
ExpiredRecreateStep ==
    /\ CreateUploadStep
    /\ SessionExists
    /\ lastOp'.r2Key = upload_info.r2Key
    /\ now > upload_info.expiresAt

\* the session written by a createUpload call that opened a new multipart upload
FreshSession ==
    /\ upload_info' # NoInfo
    /\ upload_info'.uploadId # upload_info.uploadId
    /\ upload_info'.multipartUploadId = Len(r2Multipart')
    /\ upload_info'.multipartUploadId # upload_info.multipartUploadId
    /\ r2Multipart'[upload_info'.multipartUploadId] = [state |-> "open", aborts |-> 0]
    /\ upload_info'.uploadedSize = 0
    /\ ~upload_info'.isCompleted
    /\ upload_info'.expiresAt = now + UPLOAD_EXPIRATION_MS
    /\ scheduledAlarm' = upload_info'.expiresAt
    /\ uploaded_parts' = {}
    /\ lastOp'.ret = [action |-> "created", uploadId |-> upload_info'.uploadId,
                      uploadedSize |-> 0, expiresAt |-> upload_info'.expiresAt]

\* C13 as stated: createUpload on an expired session with the same R2 key
\* aborts the old multipart upload, clears the old state and, the new multipart
\* upload being opened, leaves a fresh session with action "created".
C13_ExpiredAbortsAndRecreates ==
    [][(ExpiredRecreateStep /\ lastOp'.fault = "none")
        => /\ CallCount(lastOp'.calls, "r2.abort") = 1
           /\ FreshSession]_vars

\* C13 amended: the old multipart upload is aborted exactly when the old
\* session was not completed; the old session and its parts are cleared; when
\* the new multipart upload is opened the session is fresh, and when opening
\* fails the call throws and no session is left.
C13_ExpiredIsRecreated ==
    [][ExpiredRecreateStep
        => /\ CallCount(lastOp'.calls, "r2.abort")
                = (IF upload_info.isCompleted THEN 0 ELSE 1)
           /\ r2Multipart'[upload_info.multipartUploadId].aborts
                = r2Multipart[upload_info.multipartUploadId].aborts
                    + (IF upload_info.isCompleted THEN 0 ELSE 1)
           /\ uploaded_parts' = {}
           /\ IF lastOp'.fault = "none"
              THEN FreshSession
              ELSE /\ upload_info' = NoInfo
                   /\ lastOp'.threw = "r2.createMultipartUpload"
                   /\ lastOp'.ret = NoRet]_vars

C13_Witness ==
    /\ lastOp.op = "createUpload"
    /\ lastOp.calls = <<"r2.abort", "r2.createMultipartUpload", "setAlarm">>
    /\ SessionExists
    /\ upload_info.uploadId = 2
    /\ upload_info.createdAt = MaxTime
    /\ r2Multipart[1].aborts = 1

AlarmStep == lastOp'.op = "alarm"

\* what getUploadStatus would return in the current state
StatusNow == getUploadStatus(World).ret

\* C14: when the alarm fires on a session that is not completed, getUploadStatus
\* reports not found afterwards and abort has been invoked exactly once on the
\* session's multipart upload; no multipart upload is ever aborted twice, so
\* the count stays one for the rest of the behaviour.
C14_AlarmAbortsOnce ==
    [][/\ (AlarmStep /\ Active)
          => /\ StatusNow' = [found |-> FALSE]
             /\ uploaded_parts' = {}
             /\ lastOp'.calls = <<"r2.abort">>
             /\ r2Multipart[upload_info.multipartUploadId].aborts = 0
             /\ r2Multipart'[upload_info.multipartUploadId].aborts = 1
       /\ \A h \in DOMAIN r2Multipart :
             /\ r2Multipart'[h].aborts >= r2Multipart[h].aborts
             /\ r2Multipart'[h].aborts <= 1]_vars

C14_Witness ==
    /\ lastOp.op = "alarm"
    /\ lastOp.calls = <<"r2.abort">>
    /\ ~SessionExists
    /\ Len(r2Multipart) = 1
    /\ r2Multipart[1] = [state |-> "aborted", aborts |-> 1]
    /\ now >= UPLOAD_EXPIRATION_MS

\* C15: an alarm that fires when the session is completed, or when no session
\* exists, issues no abort and leaves the session state as it was: the answer
\* of getUploadStatus is the same before and after.
C15_AlarmIsNoOpWhenDone ==
    [][(AlarmStep /\ ~Active)
        => /\ ~Called(lastOp', "r2.abort")
           /\ StatusNow' = StatusNow
           /\ UNCHANGED <<upload_info, uploaded_parts, r2Multipart,
                          r2Objects, files>>]_vars

\* C16: an uploadPart that ran the completion sequence leaves no alarm pending
\* when the metadata write was verified, and does not cancel the alarm when the
\* sequence failed (a store call threw, or the read-back found no record).
C16_AlarmCancelledIffVerified ==
    (lastOp.op = "uploadPart" /\ Called(lastOp, "r2.complete"))
        => IF lastOp.verify = "found"
           THEN scheduledAlarm = NoAlarm
           ELSE /\ ~Called(lastOp, "deleteAlarm")
                /\ scheduledAlarm # NoAlarm

\* C17: while a session exists and is not completed the alarm is pending at
\* the session's expiresAt, which is createdAt + UPLOAD_EXPIRATION_MS; a
\* createUpload that resumes and an uploadPart never call setAlarm, and leave
\* the alarm where it was as long as the session stays uncompleted.
C17_AlarmPendingAtExpiry ==
    [][/\ Active'
          => /\ scheduledAlarm' = upload_info'.expiresAt
             /\ upload_info'.expiresAt
                   = upload_info'.createdAt + UPLOAD_EXPIRATION_MS
       /\ (UploadPartStep
             \/ (CreateUploadStep /\ lastOp'.ret # NoRet
                    /\ lastOp'.ret.action = "resumed"))
          => /\ ~Called(lastOp', "setAlarm")
             /\ Active' => scheduledAlarm' = scheduledAlarm]_vars

C17_Witness ==
    /\ Active
    /\ lastOp.op = "uploadPart"
    /\ lastOp.threw = "none"
    /\ upload_info.uploadedSize > 0
    /\ now > upload_info.createdAt
    /\ scheduledAlarm = upload_info.expiresAt

DeleteUploadStep == lastOp'.op = "deleteUpload"

\* C18: deleteUpload does not throw in any state and leaves no session and no
\* part rows; it invokes abort exactly when a session existed and was not
\* completed, and clears the state also when that abort fails; a deleteUpload
\* that follows a deleteUpload changes nothing and has the same outcome.
C18_DeleteAlwaysClears ==
    [][DeleteUploadStep
        => /\ lastOp'.threw = "none"
           /\ upload_info' = NoInfo
           /\ uploaded_parts' = {}
           /\ StatusNow' = [found |-> FALSE]
           /\ lastOp'.calls = (IF Active THEN <<"r2.abort">> ELSE <<>>)
           /\ UNCHANGED <<r2Objects, files, insertCalls>>
           /\ ~Active => UNCHANGED r2Multipart
           /\ lastOp.op = "deleteUpload"
              => /\ lastOp'.calls = <<>>
                 /\ lastOp'.threw = lastOp.threw
                 /\ lastOp'.ret = lastOp.ret
                 /\ UNCHANGED <<upload_info, uploaded_parts, r2Multipart>>]_vars

\* a deleteUpload whose abort failed: the upload is still open in R2, the
\* session is gone
C18_Witness ==
    /\ lastOp.op = "deleteUpload"
    /\ lastOp.calls = <<"r2.abort">>
    /\ lastOp.threw = "none"
    /\ ~SessionExists
    /\ uploaded_parts = {}
    /\ Len(r2Multipart) = 1
    /\ r2Multipart[1] = [state |-> "open", aborts |-> 1]

\* a suspended uploadPart runs to its end in this step
UploadPartResumeStep ==
    /\ lastOp'.op = "uploadPart"
    /\ Len(suspended') < Len(suspended)

\* C19: a deleteUpload delivered while an uploadPart is suspended at R2 is not
\* interleaved with it: the uploadPart that goes on after the deleteUpload acts
\* as a call made after it, throwing "Upload not found" and writing no part
\* row and no uploaded size into the cleared state.
C19_DeleteNotInterleaved ==
    [][(UploadPartResumeStep /\ lastOp.op = "deleteUpload")
        => /\ lastOp'.threw = "Upload not found"
           /\ lastOp'.ret = NoRet
           /\ upload_info' = NoInfo
           /\ uploaded_parts' = {}]_vars

\* C20: of two uploadPart calls with the same offset, the second delivered
\* while the first is suspended at R2, one is accepted and the other, which
\* finds the session's uploaded size already advanced, is rejected with
\* "Offset mismatch" and changes nothing.
C20_SecondSameOffsetRejected ==
    [][(UploadPartResumeStep /\ Active
            /\ (\A i \in 1..Len(suspended) :
                    /\ suspended[i].info.uploadId = upload_info.uploadId
                    /\ suspended[i].offset # upload_info.uploadedSize))
        => /\ lastOp'.threw = "Offset mismatch"
           /\ UNCHANGED <<upload_info, uploaded_parts>>]_vars

\* the step ran the completion sequence: it called multipart.complete
CompletionRan == Called(lastOp', "r2.complete")

\* the completion sequence did all of its steps: multipart.complete and the
\* INSERT succeeded and the read-back found the record
CompletionSucceeded == lastOp'.fault = "none" /\ lastOp'.verify = "found"

\* an uploadPart that recorded a part and brought uploaded_size to total_size
AppendReachedTotal ==
    /\ UploadPartStep
    /\ Active
    /\ uploaded_parts' # uploaded_parts
    /\ upload_info'.uploadedSize >= upload_info'.totalSize

\* C21: the completion sequence runs only in uploadPart, and exactly in an
\* uploadPart whose recorded part brings uploaded_size to total_size; that
\* uploadPart returns isCompleted = true exactly when the sequence succeeded;
\* is_completed is never set while uploaded_size is below total_size.
C21_CompletionFollowsLastPart ==
    [][/\ CompletionRan <=> AppendReachedTotal
       /\ CompletionRan
          => ((lastOp'.ret # NoRet /\ lastOp'.ret.isCompleted)
                 <=> CompletionSucceeded)
       /\ (upload_info' # NoInfo /\ upload_info'.isCompleted)
          => upload_info'.uploadedSize >= upload_info'.totalSize]_vars

\* C22: when multipart.complete fails, the session stays uncompleted with the
\* parts recorded so far (the one just uploaded included), no INSERT INTO files
\* is issued, no object appears in R2 and the alarm stays armed at expiresAt.
C22_FailedCompleteKeepsSession ==
    [][(UploadPartStep /\ lastOp'.fault = "r2.complete")
        => /\ lastOp'.threw # "none"
           /\ lastOp'.ret = NoRet
           /\ SameSession
           /\ Active'
           /\ uploaded_parts \subseteq uploaded_parts'
           /\ upload_info'.uploadedSize = SumSizes(uploaded_parts')
           /\ ~Called(lastOp', "d1.insert")
           /\ UNCHANGED <<files, insertCalls, r2Objects, scheduledAlarm>>
           /\ scheduledAlarm' = upload_info'.expiresAt]_vars

C22_Witness ==
    /\ lastOp.op = "uploadPart"
    /\ lastOp.fault = "r2.complete"
    /\ Active
    /\ Cardinality(uploaded_parts) = 2
    /\ upload_info.uploadedSize = upload_info.totalSize
    /\ scheduledAlarm = upload_info.expiresAt
    /\ files = {}

\* the part row recorded last
LastPart(parts) == CHOOSE p \in parts : p.partNumber = Cardinality(parts)

\* the session has all its bytes and no record in files: a completion
\* attempt has failed
CompletionPending ==
    /\ SessionExists
    /\ upload_info.uploadedSize = upload_info.totalSize
    /\ uploaded_parts # {}
    /\ ~RowWithId(files, upload_info.uploadId)

\* C23: after a failed completion with uploaded_size = total_size, sending the
\* last chunk again (at the offset it was accepted at) records no part, leaves
\* uploaded_size as it is and runs the completion sequence again.
C23_ResendRedrivesCompletion ==
    [][(UploadPartStep /\ CompletionPending
            /\ lastOp'.offset
                 = upload_info.uploadedSize - LastPart(uploaded_parts).size)
        => /\ uploaded_parts' = uploaded_parts
           /\ upload_info' # NoInfo
           /\ upload_info'.uploadedSize = upload_info.uploadedSize
           /\ CompletionRan]_vars

\* C24: with chunks accepted in order that add up to total_size and stores
\* that do not fail, every uploadPart before the last returns isCompleted =
\* false with the new uploaded size, the last returns isCompleted = true, and
\* files then holds exactly one record of the upload, with the session's
\* uploadId, total_size and r2Key.
C24_InOrderUploadCompletes ==
    [][(UploadPartStep /\ Active
            /\ lastOp'.offset = upload_info.uploadedSize
            /\ lastOp'.fault = "none" /\ lastOp'.verify # "absent"
            /\ upload_info'.uploadedSize <= upload_info.totalSize)
        => /\ lastOp'.threw = "none"
           /\ SameSession
           /\ upload_info'.uploadedSize = SumSizes(uploaded_parts')
           /\ IF upload_info'.uploadedSize < upload_info.totalSize
              THEN /\ lastOp'.ret = [uploadedSize |-> upload_info'.uploadedSize,
                                     isCompleted |-> FALSE]
                   /\ ~upload_info'.isCompleted
                   /\ files' = files
              ELSE /\ lastOp'.ret = [uploadedSize |-> upload_info.totalSize,
                                     isCompleted |-> TRUE]
                   /\ upload_info'.isCompleted
                   /\ {f \in files' : f.id = upload_info.uploadId}
                        = {[id |-> upload_info.uploadId,
                            size |-> upload_info.totalSize,
                            r2Key |-> upload_info.r2Key]}
                   /\ insertCalls'[upload_info.uploadId] = 1
                   /\ r2Objects'[upload_info.r2Key] = upload_info.totalSize]_vars

C24_Witness ==
    /\ lastOp.op = "uploadPart"
    /\ lastOp.ret = [uploadedSize |-> MaxTotalSize, isCompleted |-> TRUE]
    /\ lastOp.verify = "found"
    /\ Cardinality(uploaded_parts) = 2
    /\ \A p \in uploaded_parts : p.size > 0
    /\ SessionExists
    /\ files = {[id |-> upload_info.uploadId, size |-> upload_info.totalSize,
                 r2Key |-> upload_info.r2Key]}

\* C25: a record is inserted into files, and an INSERT is issued at all, only
\* by an uploadPart of an uncompleted session in which multipart.complete has
\* just succeeded for the session's multipart upload and uploaded_size has
\* reached total_size; the record carries the session's uploadId.  So every
\* record in files has a completed multipart upload behind it.
C25_RecordOnlyAfterBlobCompletion ==
    [][/\ (insertCalls' # insertCalls \/ files' # files)
          => /\ UploadPartStep
             /\ Active
             /\ CompletionRan
             /\ lastOp'.fault # "r2.complete"
             /\ r2Multipart[upload_info.multipartUploadId].state = "open"
             /\ r2Multipart'[upload_info.multipartUploadId].state = "completed"
             /\ upload_info'.uploadedSize >= upload_info.totalSize
             /\ \A u \in UploadIds :
                   u # upload_info.uploadId => insertCalls'[u] = insertCalls[u]
             /\ files \subseteq files'
             /\ \A f \in files' \ files : f.id = upload_info.uploadId
       /\ files' # {}
          => \E h \in DOMAIN r2Multipart' : r2Multipart'[h].state = "completed"
       /\ (Active' /\ upload_info'.uploadedSize < upload_info'.totalSize)
          => /\ insertCalls'[upload_info'.uploadId] = 0
             /\ ~RowWithId(files', upload_info'.uploadId)]_vars

\* a session whose multipart.complete failed after another upload's record
\* was written: files holds the other record only
C25_Witness ==
    /\ lastOp.op = "uploadPart"
    /\ lastOp.fault = "r2.complete"
    /\ Active
    /\ Cardinality(files) = 1
    /\ ~RowWithId(files, upload_info.uploadId)
    /\ insertCalls[upload_info.uploadId] = 0

\* a PATCH makes its first call of the object in this step
PatchStatusStep == lastOp'.op = "getUploadStatus" /\ lastOp'.offset # NoArg

\* a PATCH makes its second call of the object and answers in this step
PatchUploadStep ==
    /\ lastOp'.op = "uploadPart"
    /\ Len(chunkRequests') < Len(chunkRequests)

\* the stores and the object's state are as they were
StoresUnchanged ==
    UNCHANGED <<upload_info, uploaded_parts, scheduledAlarm, r2Multipart,
                r2Objects, files, insertCalls, kv>>

\* C26: when uploadPart rejects a chunk with "Offset mismatch", and when the
\* route itself finds the Upload-Offset different from the uploaded size, the
\* answer is 409 and names the session's uploaded size at that moment; the
\* session is unchanged.
C26_ConflictCarriesServerOffset ==
    [][/\ (PatchUploadStep /\ lastOp'.threw = "Offset mismatch")
          => /\ response' = [status |-> 409,
                             offset |-> upload_info.uploadedSize,
                             length |-> NoArg]
             /\ lastOp'.offset # upload_info.uploadedSize
             /\ StoresUnchanged
       /\ (PatchStatusStep /\ SessionExists
              /\ lastOp'.offset # upload_info.uploadedSize)
          => /\ response' = [status |-> 409,
                             offset |-> upload_info.uploadedSize,
                             length |-> NoArg]
             /\ chunkRequests' = chunkRequests
             /\ StoresUnchanged]_vars

\* uploadPart rejected a chunk that had passed the route's own check
C26_Witness ==
    /\ lastOp.op = "uploadPart"
    /\ lastOp.threw = "Offset mismatch"
    /\ lastOp.offset = 0
    /\ response.status = 409
    /\ response.offset = upload_info.uploadedSize
    /\ upload_info.uploadedSize > 0

\* C27: uploadPart on an object with no session throws "Upload not found", and
\* a PATCH or HEAD for an upload that has no session answers 404; none of them
\* calls a store, opens a multipart upload or creates a session.
C27_UnknownUploadIsNotFound ==
    [][/\ (PatchUploadStep /\ ~SessionExists)
          => /\ lastOp'.threw = "Upload not found"
             /\ response'.status = 404
       /\ (lastOp'.op = "getUploadStatus" /\ ~SessionExists)
          => /\ response'.status = 404
             /\ chunkRequests' = chunkRequests
       /\ (lastOp'.op \in {"uploadPart", "getUploadStatus"} /\ ~SessionExists)
          => /\ lastOp'.calls = <<>>
             /\ upload_info' = NoInfo
             /\ StoresUnchanged]_vars

\* uploadPart was called through a PATCH on an object whose session had gone
C27_Witness ==
    /\ lastOp.op = "uploadPart"
    /\ lastOp.threw = "Upload not found"
    /\ response.status = 404
    /\ upload_info = NoInfo

\* C28: a PATCH that calls a completed session with an Upload-Offset below the
\* uploaded size is answered 409 and changes nothing; with an Upload-Offset
\* equal to the uploaded size it is answered 204 with that same offset.
C28_StaleChunkOnCompletedIsConflict ==
    [][((PatchStatusStep \/ PatchUploadStep) /\ SessionExists
            /\ upload_info.isCompleted)
          => /\ lastOp'.offset < upload_info.uploadedSize
                => /\ response'.status = 409
                   /\ StoresUnchanged
             /\ lastOp'.offset = upload_info.uploadedSize
                => /\ response'.status = 204
                   /\ response'.offset = upload_info.uploadedSize
                   /\ upload_info' = upload_info]_vars

\* a POST is answered in this step
HttpCreateStep == creationHeaders' # NoHeaders

C30_RoutesWriteNoStore ==
    [][kv' = kv /\ ~Called(lastOp', "kv.put")]_vars

\* the fields of a session that are set when it is created
CreationFields(info) ==
    [r2Key |-> info.r2Key, totalSize |-> info.totalSize,
     multipartUploadId |-> info.multipartUploadId, uploadId |-> info.uploadId,
     createdAt |-> info.createdAt, expiresAt |-> info.expiresAt]

\* createUpload found the session and resumed it
ResumeStep ==
    /\ lastOp'.op = "createUpload"
    /\ lastOp'.ret # NoRet
    /\ lastOp'.ret.action = "resumed"

\* C31: uploadPart (with the completion it runs), getUploadStatus and a
\* resuming createUpload, whatever totalSize it is called with, keep the
\* session and leave its r2Key, totalSize, multipartUploadId, uploadId,
\* createdAt and expiresAt as they were; no step changes them while the
\* session stays the same.
C31_CreationFieldsNeverChange ==
    [][/\ (SessionExists
             /\ (lastOp'.op \in {"uploadPart", "getUploadStatus"} \/ ResumeStep))
          => /\ upload_info' # NoInfo
             /\ CreationFields(upload_info') = CreationFields(upload_info)
       /\ SameSession
          => CreationFields(upload_info') = CreationFields(upload_info)]_vars

\* a session was resumed by a call that named another totalSize
C31_Witness ==
    /\ lastOp.op = "createUpload"
    /\ lastOp.ret # NoRet
    /\ lastOp.ret.action = "resumed"
    /\ SessionExists
    /\ lastOp.totalSize # upload_info.totalSize
    /\ upload_info.uploadedSize > 0

\* C34: a session that reports completed has a record with its uploadId in
\* table files, whatever the D1 INSERT and its read-back did.
C34_CompletedHasRecord ==
    (SessionExists /\ upload_info.isCompleted)
        => RowWithId(files, upload_info.uploadId)

\* the record of the session in table files
RecordOf(info) == CHOOSE f \in files : f.id = info.uploadId

\* C35: the size in the session's record in table files is the sum of the
\* sizes of its part rows, for every chunking.
C35_RecordSizeIsSumOfParts ==
    (SessionExists /\ RowWithId(files, upload_info.uploadId))
        => RecordOf(upload_info).size = SumSizes(uploaded_parts)

\* C37: when alarm() clears a session, that session's expiresAt has been
\* reached: an alarm set for an earlier session of the object, deleted or
\* re-created since, does not fire on the newer one before its time.
C37_AlarmNotBeforeExpiry ==
    [][(AlarmStep /\ SessionExists)
          => /\ now >= upload_info.expiresAt
             /\ upload_info' = NoInfo]_vars

\* alarm() has cleared the second session of the object, the first having
\* been deleted with its alarm still set
C37_Witness ==
    /\ lastOp.op = "alarm"
    /\ Called(lastOp, "r2.abort")
    /\ upload_info = NoInfo
    /\ Len(r2Multipart) = 2
    /\ r2Multipart[1].state = "aborted"
    /\ r2Multipart[2].state = "aborted"
    /\ now = MaxTime

\* C38: deleteUpload and alarm() on a completed session call no abort, leave
\* the multipart upload, the R2 object and table files as they were, and
\* clear the session and its part rows.
C38_CompletedCleanupKeepsFile ==
    [][((DeleteUploadStep \/ AlarmStep) /\ SessionExists
            /\ upload_info.isCompleted)
          => /\ ~Called(lastOp', "r2.abort")
             /\ lastOp'.threw = "none"
             /\ r2Multipart' = r2Multipart
             /\ r2Objects' = r2Objects
             /\ files' = files
             /\ upload_info' = NoInfo
             /\ uploaded_parts' = {}]_vars

\* a deleteUpload has run on the object after its upload completed with its
\* record written
C38_Witness ==
    /\ lastOp.op = "deleteUpload"
    /\ lastOp.calls = <<>>
    /\ upload_info = NoInfo
    /\ Len(r2Multipart) = 1
    /\ r2Multipart[1].state = "completed"
    /\ \E k \in R2Keys : r2Objects[k] # NoObject
    /\ \E f \in files : f.id = 1

\* C33: wherever a crash cuts off createUpload, uploadPart or the completion,
\* the stored session that getUploadStatus and uploadPart find afterwards has
\* an uploaded size equal to the sum of the sizes of its part rows, and part
\* rows numbered 1..N.
C33_CrashKeepsBookkeeping ==
    SessionExists
        => /\ upload_info.uploadedSize = SumSizes(uploaded_parts)
           /\ PartNumbers(uploaded_parts) = 1..Cardinality(uploaded_parts)
           /\ StatusNow.uploadedSize = SumSizes(uploaded_parts)

\* getUploadStatus has answered for a session whose uploadPart a crash cut off
\* after its part was stored
C33_Witness ==
    /\ lastOp.op = "getUploadStatus"
    /\ SessionExists
    /\ upload_info.uploadId \in crashed
    /\ lastOp.ret.uploadedSize = MaxTotalSize
    /\ Cardinality(uploaded_parts) = 2

\* C39: once a crash has cut a completion off after multipart.complete
\* succeeded and before the record was inserted, no call of the object and no
\* alarm writes the record of that upload: table files never holds it.
C39_CrashGapIsNeverRepaired ==
    \A u \in crashed : ~RowWithId(files, u)

\* uploadPart was sent again to a session that a crash left completed without
\* its record, and answered that the upload is completed
C39_Witness ==
    /\ lastOp.op = "uploadPart"
    /\ lastOp.threw = "none"
    /\ lastOp.ret.isCompleted
    /\ SessionExists
    /\ upload_info.uploadId \in crashed
    /\ r2Objects[upload_info.r2Key] # NoObject
    /\ files = {}

\* C36: abort is never invoked on a multipart upload that multipart.complete
\* has finished, and multipart.complete and multipart.uploadPart are never
\* invoked on one that was aborted.
C36_HandleFinalizedOnce ==
    [][/\ \A h \in DOMAIN r2Multipart :
             r2Multipart'[h].aborts > r2Multipart[h].aborts
                => r2Multipart[h].state # "completed"
       /\ (SessionExists
             /\ \/ Called(lastOp', "r2.complete")
                \/ lastOp'.op = "uploadPart" /\ Called(lastOp', "r2.uploadPart"))
          => r2Multipart[upload_info.multipartUploadId].state # "aborted"]_vars

\* the object holds the session with uploadId u
SessionIs(u) == SessionExists /\ upload_info.uploadId = u

\* session u is completed and its record is in table files
CompletedVerified(u) ==
    /\ SessionIs(u)
    /\ upload_info.isCompleted
    /\ RowWithId(files, u)

\* C32: every session is cleared in the end: a completed session whose record
\* was written is cleared some time after, and a session whose expiresAt the
\* clock of the model reaches is cleared unless it gets completed.
C32_EverySessionIsDestroyed ==
    \A u \in UploadIds :
        /\ CompletedVerified(u) ~> ~SessionIs(u)
        /\ (SessionIs(u) /\ upload_info.expiresAt <= MaxTime)
              ~> (~SessionIs(u) \/ upload_info.isCompleted)
====
